---- MODULE Spec2Model ----
(***************************************************************************)
(* Model of mdfreader/mdf.py: class mdf_skeleton(dict), the in-memory      *)
(* channel store of mdfreader.  The dict itself maps a channel name to a   *)
(* channel dict; masterChannelList maps a master channel name to the list  *)
(* of the channel names of its data group.                                 *)
(*                                                                         *)
(* Every method is an operator from the object's state (and the call's     *)
(* arguments) to an Outcome: the object's state after the call, the value  *)
(* returned, and the exception raised ("" when the call returns).  A call  *)
(* that raises keeps the assignments it made before the raise.             *)
(***************************************************************************)
EXTENDS Integers, Sequences, FiniteSets, TLC

(***************************************************************************)
(* Python values.  Each value carries its type, so that None, '' and 0 are *)
(* three different values and a dict is never mistaken for a string.       *)
(***************************************************************************)
None == [t |-> "NoneType"]
PyStr(s) == [t |-> "str", s |-> s]
PyInt(i) == [t |-> "int", i |-> i]
\* a float: sign bit and magnitude, so that 0.0 and -0.0 are two values
PyFloat(neg, mag) == [t |-> "float", neg |-> neg, mag |-> mag]
PyDict(d) == [t |-> "dict", d |-> d]
PyList(l) == [t |-> "list", l |-> l]

IsNumber(v) == v.t \in {"int", "float"}
NumVal(v) == IF v.t = "int" THEN v.i ELSE IF v.neg THEN 0 - v.mag ELSE v.mag
\* Python's ==: numbers compare by value (1 == 1.0, 0.0 == -0.0), the rest
\* of the values of the model by type and content
PyEq(a, b) == IF IsNumber(a) /\ IsNumber(b) THEN NumVal(a) = NumVal(b) ELSE a = b
\* Python's `x in (a, b)`
PyInPair(x, a, b) == PyEq(x, a) \/ PyEq(x, b)

\* str(n) of a non-negative int: its decimal digits
Digit(n) == <<"0", "1", "2", "3", "4", "5", "6", "7", "8", "9">>[n + 1]
RECURSIVE str(_)
str(n) == IF n < 10 THEN Digit(n) ELSE str(n \div 10) \o Digit(n % 10)

(***************************************************************************)
(* Python dicts (functions on their key set) and lists (sequences).        *)
(***************************************************************************)
EmptyDict == <<>>
DictSet(d, k, v) == [x \in DOMAIN d \cup {k} |-> IF x = k THEN v ELSE d[x]]
DictPop(d, k) == [x \in DOMAIN d \ {k} |-> d[x]]
InList(l, x) == \E i \in 1..Len(l) : l[i] = x
\* list.remove(x): deletes the first occurrence of x
ListRemove(l, x) ==
    LET i == CHOOSE j \in 1..Len(l) : l[j] = x /\ \A h \in 1..(j - 1) : l[h] # x
    IN  SubSeq(l, 1, i - 1) \o SubSeq(l, i + 1, Len(l))

descriptionField == "description"
unitField == "unit"
dataField == "data"
masterField == "master"
masterTypeField == "masterType"
conversionField == "conversion"
attachmentField == "attachment"

MetadataKeys == {"author", "organisation", "project", "subject", "comment", "time", "date"}

\* the version below which a file is mdf3
MDF4 == 400
\* the version the constructor sets
DefaultVersion == 300

(***************************************************************************)
(* The object: o.self is the dict the class is, the other fields are its   *)
(* attributes.                                                             *)
(***************************************************************************)
NewObject ==
    [self |-> EmptyDict,
     masterChannelList |-> EmptyDict,
     file_metadata |-> [k \in MetadataKeys |-> PyStr("")],
     MDFVersionNumber |-> DefaultVersion]

Outcome(o, r, e) == [obj |-> o, ret |-> r, exc |-> e]
Returns(o, r) == Outcome(o, r, "")
Raises(o, e) == Outcome(o, None, e)

getChannel(o, channelName) ==
    IF channelName \in DOMAIN o.self THEN PyDict(o.self[channelName]) ELSE None

\* a _getChannelField that answers '' for an unknown channel too
_getChannelField_empty(o, channelName, field) ==
    LET channel == getChannel(o, channelName)
    IN  IF channelName \in DOMAIN o.self /\ field \in DOMAIN channel.d
        THEN channel.d[field]
        ELSE PyStr("")

_getChannelField(o, channelName, field) ==
    LET channel == getChannel(o, channelName)
    IN  IF channelName \in DOMAIN o.self
        THEN IF field \in DOMAIN channel.d THEN channel.d[field] ELSE PyStr("")
        ELSE None

getChannelUnit(o, channelName) == _getChannelField(o, channelName, unitField)
getChannelDesc(o, channelName) == _getChannelField(o, channelName, descriptionField)
getChannelMaster(o, channelName) == _getChannelField(o, channelName, masterField)
getChannelMasterType(o, channelName) == _getChannelField(o, channelName, masterTypeField)
getChannelConversion(o, channelName) == _getChannelField(o, channelName, conversionField)

\* a _setChannel that stores under a missing name instead of raising
_setChannel_creating(o, channelName, item, field) ==
    IF channelName \in DOMAIN o.self
    THEN Returns([o EXCEPT !.self[channelName] = DictSet(@, field, item)], None)
    ELSE Returns([o EXCEPT !.self = DictSet(@, channelName, DictSet(EmptyDict, field, item))],
                 None)

\* a _setChannel that stores a new channel dict holding the one field
_setChannel_replacing(o, channelName, item, field) ==
    IF channelName \in DOMAIN o.self
    THEN Returns([o EXCEPT !.self[channelName] = DictSet(EmptyDict, field, item)], None)
    ELSE Raises(o, "KeyError: Channel not in dictionary")

_setChannel(o, channelName, item, field) ==
    IF channelName \in DOMAIN o.self
    THEN Returns([o EXCEPT !.self[channelName] = DictSet(@, field, item)], None)
    ELSE Raises(o, "KeyError: Channel not in dictionary")

setChannelUnit(o, channelName, unit) == _setChannel(o, channelName, unit, unitField)
setChannelData(o, channelName, data) == _setChannel(o, channelName, data, dataField)
setChannelDesc(o, channelName, desc) == _setChannel(o, channelName, desc, descriptionField)
setChannelMaster(o, channelName, master) == _setChannel(o, channelName, master, masterField)
setChannelMasterType(o, channelName, masterType) ==
    _setChannel(o, channelName, masterType, masterTypeField)
setChannelConversion(o, channelName, conversion) ==
    _setChannel(o, channelName, conversion, conversionField)
setChannelAttachment(o, channelName, attachment) ==
    _setChannel(o, channelName, attachment, attachmentField)

(***************************************************************************)
(* add_channel, in the order of its statements.                            *)
(***************************************************************************)
\* lines 131-132: the key the new channel dict is stored under
add_channel_name(o, dataGroup, channel_name) ==
    IF channel_name \in DOMAIN o.self
    THEN channel_name \o "_" \o str(dataGroup)
    ELSE channel_name

\* line 133: self[channel_name] = {}
add_channel_new(o, name) == [o EXCEPT !.self = DictSet(@, name, EmptyDict)]

\* an index that lists the newest key first
add_channel_index_front(o, name, master_channel) ==
    LET o1 == IF master_channel \notin DOMAIN o.masterChannelList
              THEN [o EXCEPT !.masterChannelList = DictSet(@, master_channel, <<>>)]
              ELSE o
    IN  [o1 EXCEPT !.masterChannelList[master_channel] = <<name>> \o @]

\* lines 138-140: the key is appended to its master's list, created if missing
add_channel_index(o, name, master_channel) ==
    LET o1 == IF master_channel \notin DOMAIN o.masterChannelList
              THEN [o EXCEPT !.masterChannelList = DictSet(@, master_channel, <<>>)]
              ELSE o
    IN  [o1 EXCEPT !.masterChannelList[master_channel] = Append(@, name)]

\* an add_channel that stores the master type it is given, whatever the version
add_channel_masterType_given(o, name, master_type) ==
    setChannelMasterType(o, name, master_type).obj

\* lines 141-144
add_channel_masterType(o, name, master_type) ==
    IF o.MDFVersionNumber < MDF4
    THEN setChannelMasterType(o, name, PyInt(1)).obj
    ELSE setChannelMasterType(o, name, master_type).obj

\* an identity test that tells -0.0 from 0.0
is_identity_signed(cc_type, parameters) ==
    /\ PyEq(cc_type, PyInt(0))
    /\ PyEq(parameters.d["P2"], PyFloat(FALSE, 1))
    /\ parameters.d["P1"] = PyFloat(FALSE, 0)

\* lines 152-154, once P2 and P1 are known to be there
is_identity(cc_type, parameters) ==
    /\ PyEq(cc_type, PyInt(0))
    /\ PyEq(parameters.d["P2"], PyFloat(FALSE, 1))
    /\ PyInPair(parameters.d["P1"], PyFloat(FALSE, 0), PyFloat(TRUE, 0))

\* self[channel_name]['conversion'] = c
put_conversion(o, name, c) == [o EXCEPT !.self[name] = DictSet(@, conversionField, c)]

\* an mdf3 branch that stores every conversion it is given
add_channel_conversion3_keeping(o, name, conversion) ==
    LET cc_type == conversion.d["cc_type"]
        parameters == IF "conversion" \in DOMAIN conversion.d
                      THEN conversion.d["conversion"]
                      ELSE PyDict(EmptyDict)
        o1 == put_conversion(o, name, PyDict([type |-> cc_type, parameters |-> parameters]))
    IN  IF ~PyEq(cc_type, PyInt(0)) THEN Returns(o1, None)
        ELSE IF "P2" \notin DOMAIN parameters.d THEN Raises(o1, "KeyError")
        ELSE IF ~PyEq(parameters.d["P2"], PyFloat(FALSE, 1)) THEN Returns(o1, None)
        ELSE IF "P1" \notin DOMAIN parameters.d THEN Raises(o1, "KeyError")
        ELSE Returns(o1, None)

\* lines 149-155: mdf3
add_channel_conversion3(o, name, conversion) ==
    LET cc_type == conversion.d["cc_type"]
        parameters == IF "conversion" \in DOMAIN conversion.d
                      THEN conversion.d["conversion"]
                      ELSE PyDict(EmptyDict)
        o1 == put_conversion(o, name, PyDict([type |-> cc_type, parameters |-> parameters]))
    IN  IF ~PyEq(cc_type, PyInt(0)) THEN Returns(o1, None)
        ELSE IF "P2" \notin DOMAIN parameters.d THEN Raises(o1, "KeyError")
        ELSE IF ~PyEq(parameters.d["P2"], PyFloat(FALSE, 1)) THEN Returns(o1, None)
        ELSE IF "P1" \notin DOMAIN parameters.d THEN Raises(o1, "KeyError")
        ELSE IF is_identity(cc_type, parameters)
             THEN Returns([o1 EXCEPT !.self[name] = DictPop(@, conversionField)], None)
             ELSE Returns(o1, None)

\* lines 156-160: mdf4
add_channel_conversion4(o, name, conversion) ==
    LET cc_type == conversion.d["cc_type"]
        p1 == IF "cc_val" \in DOMAIN conversion.d
              THEN DictSet(EmptyDict, "cc_val", conversion.d["cc_val"])
              ELSE EmptyDict
        p2 == IF "cc_ref" \in DOMAIN conversion.d
              THEN DictSet(p1, "cc_ref", conversion.d["cc_ref"])
              ELSE p1
    IN  Returns(put_conversion(o, name, PyDict([type |-> cc_type, parameters |-> PyDict(p2)])),
                None)

\* lines 145-160
add_channel_conversion(o, name, conversion) ==
    IF conversion = None THEN Returns(o, None)
    ELSE IF "cc_type" \notin DOMAIN conversion.d
         THEN Raises(put_conversion(o, name, PyDict(EmptyDict)), "KeyError")
    ELSE IF o.MDFVersionNumber < MDF4
         THEN add_channel_conversion3(o, name, conversion)
         ELSE add_channel_conversion4(o, name, conversion)

add_channel(o, dataGroup, channel_name, data, master_channel, master_type, unit, description, conversion) ==
    LET name == add_channel_name(o, dataGroup, channel_name)
        o1 == add_channel_new(o, name)
        o2 == setChannelData(o1, name, data).obj
        o3 == setChannelUnit(o2, name, unit).obj
        o4 == setChannelDesc(o3, name, description).obj
        o5 == setChannelMaster(o4, name, master_channel).obj
        o6 == add_channel_index(o5, name, master_channel)
        o7 == add_channel_masterType(o6, name, master_type)
    IN  add_channel_conversion(o7, name, conversion)

\* lines 175-176: the list lookup, list.remove and dict.pop each may raise
remove_channel(o, channel_name) ==
    LET master == getChannelMaster(o, channel_name)
    IN  IF master \notin DOMAIN o.masterChannelList THEN Raises(o, "KeyError")
        ELSE IF ~InList(o.masterChannelList[master], channel_name)
             THEN Raises(o, "ValueError")
        ELSE LET o1 == [o EXCEPT !.masterChannelList[master] = ListRemove(@, channel_name)]
             IN  IF channel_name \notin DOMAIN o1.self THEN Raises(o1, "KeyError")
                 ELSE Returns([o1 EXCEPT !.self = DictPop(@, channel_name)],
                              PyDict(o.self[channel_name]))

\* line 175 alone: the name is deleted from the list of its master
remove_channel_175(o, channel_name) ==
    LET master == getChannelMaster(o, channel_name)
    IN  IF master \notin DOMAIN o.masterChannelList THEN Raises(o, "KeyError")
        ELSE IF ~InList(o.masterChannelList[master], channel_name)
             THEN Raises(o, "ValueError")
        ELSE Returns([o EXCEPT !.masterChannelList[master] = ListRemove(@, channel_name)],
                     None)

\* line 176 alone: return self.pop(channel_name)
remove_channel_176(o, channel_name) ==
    IF channel_name \notin DOMAIN o.self THEN Raises(o, "KeyError")
    ELSE Returns([o EXCEPT !.self = DictPop(@, channel_name)], PyDict(o.self[channel_name]))

\* line 207: `field in None` raises TypeError
_remove_channel_field(o, channelName, field) ==
    LET channel == getChannel(o, channelName)
    IN  IF channel = None THEN Raises(o, "TypeError")
        ELSE IF field \in DOMAIN channel.d
             THEN Returns([o EXCEPT !.self[channelName] = DictPop(@, field)], channel.d[field])
             ELSE Returns(o, None)

remove_channel_conversion(o, channelName) ==
    _remove_channel_field(o, channelName, conversionField)

\* an add_metadata that leaves a key as it is when the argument is ''
add_metadata_merging(o, author, organisation, project, subject, comment, date, time) ==
    LET given == [author |-> author, organisation |-> organisation, project |-> project,
                  subject |-> subject, comment |-> comment, date |-> date, time |-> time]
    IN  Returns([o EXCEPT !.file_metadata =
                     [k \in DOMAIN @ \cup MetadataKeys |->
                         IF k \in MetadataKeys /\ given[k] # PyStr("")
                         THEN given[k] ELSE @[k]]],
                None)

add_metadata(o, author, organisation, project, subject, comment, date, time) ==
    Returns([o EXCEPT !.file_metadata =
                 [k \in DOMAIN @ \cup MetadataKeys |->
                     CASE k = "author" -> author
                       [] k = "organisation" -> organisation
                       [] k = "project" -> project
                       [] k = "subject" -> subject
                       [] k = "comment" -> comment
                       [] k = "date" -> date
                       [] k = "time" -> time
                       [] OTHER -> @[k]]],
            None)

(***************************************************************************)
(* copy().  o is the whole object, its scalar attributes included.  The    *)
(* copy's masterChannelList and file_metadata are the very objects of o    *)
(* (lines 521-522), so the copy has no such fields of its own; and         *)
(* _pandasframe is not among the attributes copy() assigns: the copy keeps *)
(* the False its constructor gave it (lines 101, 518).                     *)
(***************************************************************************)
copy(o) ==
    [made |-> TRUE,
     self |-> o.self,
     multiProc |-> o.multiProc,
     fileName |-> o.fileName,
     MDFVersionNumber |-> o.MDFVersionNumber,
     filterChannelNames |-> o.filterChannelNames,
     convert_tables |-> o.convert_tables,
     _pandasframe |-> FALSE]

\* a copy whose channel dicts are new objects
copy_shared_none(o) == {}

\* lines 528-529, yop[channel] = self[channel]: the keys under which the
\* copy holds the very channel dict of o
copy_shared(o) == DOMAIN o.self

(***************************************************************************)
(* The state: one mdf_skeleton object, and what its last call was and did. *)
(***************************************************************************)
VARIABLES
    self,               \* the dict: channel name -> channel dict
    masterChannelList,  \* master channel name -> list of channel names
    file_metadata,
    MDFVersionNumber,
    call,               \* the last call: its method, channel name and other arguments
    ret,                \* the value the last call returned
    exc,                \* the exception the last call raised, "" if it returned
    ncalls,             \* the number of calls made, in the specifications that count them
    fileName,
    multiProc,
    filterChannelNames,
    convert_tables,
    _pandasframe,
    yop,                \* the object copy() returned, NoCopy before the first copy()
    shared,             \* the keys under which self and yop hold one and the same channel dict
    callee,             \* the object the last call was made on: "self" or "yop"
    before,             \* the dict and the index before the last call
    copyKeys,           \* the keys of self at the last copy()
    sinceCopy,          \* the keys add_channel bound or remove_channel popped since, on either object
    pc,                 \* the line the call in progress has reached, "idle" between calls
    frame,              \* the arguments and locals of the call in progress
    observed            \* what a second accessor last read: the keys and the names of the index

\* the scalar attributes other than MDFVersionNumber
config == <<fileName, multiProc, filterChannelNames, convert_tables, _pandasframe>>
copied == <<yop, shared, callee>>
history == <<before, copyKeys, sinceCopy>>
stepping == <<pc, frame, observed>>

vars ==
    <<self, masterChannelList, file_metadata, MDFVersionNumber, call, ret, exc, ncalls,
      config, copied, history, stepping>>

\* there is no copy yet
NoCopy == [made |-> FALSE]

\* the object the variables hold
this ==
    [self |-> self,
     masterChannelList |-> masterChannelList,
     file_metadata |-> file_metadata,
     MDFVersionNumber |-> MDFVersionNumber]

Call(op, name, args) == [op |-> op, name |-> name, args |-> args]

\* the call c ends as out says
Does(c, out) ==
    /\ self' = out.obj.self
    /\ masterChannelList' = out.obj.masterChannelList
    /\ file_metadata' = out.obj.file_metadata
    /\ MDFVersionNumber' = out.obj.MDFVersionNumber
    /\ call' = c
    /\ ret' = out.ret
    /\ exc' = out.exc

\* __init__ with fileName=None
Init ==
    /\ self = NewObject.self
    /\ masterChannelList = NewObject.masterChannelList
    /\ file_metadata = NewObject.file_metadata
    /\ MDFVersionNumber = NewObject.MDFVersionNumber
    /\ call = Call("__init__", "", <<>>)
    /\ ret = None
    /\ exc = ""
    /\ ncalls = 0
    /\ fileName = None
    /\ multiProc = FALSE
    /\ filterChannelNames = FALSE
    /\ convert_tables = FALSE
    /\ _pandasframe = FALSE
    /\ yop = NoCopy
    /\ shared = {}
    /\ callee = "self"
    /\ before = [self |-> NewObject.self, masterChannelList |-> NewObject.masterChannelList]
    /\ copyKeys = {}
    /\ sinceCopy = {}
    /\ pc = "idle"
    /\ frame = <<>>
    /\ observed = [keys |-> {}, members |-> {}, at |-> "idle"]

\* a call on self, run to its end, of an object that has no copy
Alone(A) == A /\ UNCHANGED <<config, copied, history, stepping>>
\* a call in a specification that bounds the number of calls by max
Counted(A, max) == ncalls < max /\ Alone(A) /\ ncalls' = ncalls + 1
\* a call in a specification that does not count them
Uncounted(A) == Alone(A) /\ UNCHANGED ncalls

\* the members of all the lists of the index, as (master, position) pairs
IndexSlots(mcl) == UNION {{<<m, i>> : i \in 1..Len(mcl[m])} : m \in DOMAIN mcl}
IndexSize(mcl) == Cardinality(IndexSlots(mcl))
IndexMembers(mcl) == {mcl[s[1]][s[2]] : s \in IndexSlots(mcl)}

\* a is the record of add_channel's arguments; the model stops adding once
\* the index holds max names
call_add_channel(a, max) ==
    /\ IndexSize(masterChannelList) < max
    /\ Does(Call("add_channel", a.channel_name, a),
            add_channel(this, a.dataGroup, a.channel_name, a.data, a.master_channel,
                        a.master_type, a.unit, a.description, a.conversion))

call_remove_channel(channel_name) ==
    Does(Call("remove_channel", channel_name, <<>>), remove_channel(this, channel_name))

call_setChannelUnit(channelName, unit) ==
    Does(Call("setChannelUnit", channelName, <<unit>>),
         setChannelUnit(this, channelName, unit))

call_setChannelData(channelName, data) ==
    Does(Call("setChannelData", channelName, <<data>>),
         setChannelData(this, channelName, data))

call_setChannelDesc(channelName, desc) ==
    Does(Call("setChannelDesc", channelName, <<desc>>),
         setChannelDesc(this, channelName, desc))

call_setChannelMaster(channelName, master) ==
    Does(Call("setChannelMaster", channelName, <<master>>),
         setChannelMaster(this, channelName, master))

call_setChannelMasterType(channelName, masterType) ==
    Does(Call("setChannelMasterType", channelName, <<masterType>>),
         setChannelMasterType(this, channelName, masterType))

call_setChannelConversion(channelName, conversion) ==
    Does(Call("setChannelConversion", channelName, <<conversion>>),
         setChannelConversion(this, channelName, conversion))

call_setChannelAttachment(channelName, attachment) ==
    Does(Call("setChannelAttachment", channelName, <<attachment>>),
         setChannelAttachment(this, channelName, attachment))

\* add_metadata(author=author), the other fields at their default ''
call_add_metadata(author) ==
    Does(Call("add_metadata", "", <<author>>),
         add_metadata(this, author, PyStr(""), PyStr(""), PyStr(""), PyStr(""), PyStr(""),
                      PyStr("")))

\* add_metadata(comment=comment): author and the other fields at their ''
call_add_metadata_comment(comment) ==
    Does(Call("add_metadata", "", <<PyStr(""), PyStr(""), PyStr(""), PyStr(""), comment>>),
         add_metadata(this, PyStr(""), PyStr(""), PyStr(""), PyStr(""), comment, PyStr(""),
                      PyStr("")))

call_remove_channel_conversion(channelName) ==
    Does(Call("remove_channel_conversion", channelName, <<>>),
         remove_channel_conversion(this, channelName))

call__remove_channel_field(channelName, field) ==
    Does(Call("_remove_channel_field", channelName, <<field>>),
         _remove_channel_field(this, channelName, field))

call_getChannel(channelName) ==
    Does(Call("getChannel", channelName, <<>>), Returns(this, getChannel(this, channelName)))

call_getChannelUnit(channelName) ==
    Does(Call("getChannelUnit", channelName, <<>>),
         Returns(this, getChannelUnit(this, channelName)))

call_getChannelDesc(channelName) ==
    Does(Call("getChannelDesc", channelName, <<>>),
         Returns(this, getChannelDesc(this, channelName)))

call_getChannelMaster(channelName) ==
    Does(Call("getChannelMaster", channelName, <<>>),
         Returns(this, getChannelMaster(this, channelName)))

call_getChannelMasterType(channelName) ==
    Does(Call("getChannelMasterType", channelName, <<>>),
         Returns(this, getChannelMasterType(this, channelName)))

call_getChannelConversion(channelName) ==
    Does(Call("getChannelConversion", channelName, <<>>),
         Returns(this, getChannelConversion(this, channelName)))

\* a reader assigns the attribute: self.MDFVersionNumber = v
set_MDFVersionNumber(v) ==
    Does(Call("MDFVersionNumber", "", <<v>>), Returns([this EXCEPT !.MDFVersionNumber = v], None))

(***************************************************************************)
(* Inputs.                                                                 *)
(***************************************************************************)
\* channel names a caller passes: a plain name, and a name that looks like
\* a renamed one
ChannelNames == {"T", "T_1"}
DataGroups == {0, 1}
Datas == {PyStr("d1"), PyStr("d2")}
\* master channel names; None is the "no master" value
Masters == {None, PyStr("A")}

AddArgs(names, groups, datas, masters, types, units, descs, convs) ==
    [dataGroup : groups, channel_name : names, data : datas, master_channel : masters,
     master_type : types, unit : units, description : descs, conversion : convs]

\* the names a call may be about: those given to add_channel, every key
\* and every name in the index
KnownNames == ChannelNames \cup DOMAIN self \cup IndexMembers(masterChannelList)

(***************************************************************************)
(* SpecIndex: add_channel with its defaults and remove_channel.            *)
(***************************************************************************)
MaxIndex == 3

IndexAdds ==
    AddArgs(ChannelNames, DataGroups, Datas, Masters, {PyInt(1)}, {PyStr("")}, {PyStr("")},
            {None})

NextIndex ==
    \/ \E a \in IndexAdds : Uncounted(call_add_channel(a, MaxIndex))
    \/ \E n \in KnownNames : Uncounted(call_remove_channel(n))

SpecIndex == Init /\ [][NextIndex]_vars

(***************************************************************************)
(* Claims settled under SpecIndex.                                         *)
(***************************************************************************)
\* the key the collision rule names for a call of add_channel with arguments a
RuleKey(a) ==
    IF a.channel_name \in DOMAIN self
    THEN a.channel_name \o "_" \o str(a.dataGroup)
    ELSE a.channel_name

\* C1: every add_channel call registers the new record under the name, or
\* under name_groupId when the name is already a key, and never overwrites:
\* the key is new, it is the only key added, and every record that was
\* there before the call is as it was.
C1_AddNeverOverwrites ==
    [][call'.op = "add_channel" =>
          /\ RuleKey(call'.args) \notin DOMAIN self
          /\ DOMAIN self' = DOMAIN self \cup {RuleKey(call'.args)}
          /\ \A k \in DOMAIN self : self'[k] = self[k]]_vars

\* C2: the names in the lists of the index are exactly the keys of the
\* store, and no name occurs twice in the index.
C2_IndexIsKeySet ==
    /\ IndexMembers(masterChannelList) = DOMAIN self
    /\ IndexSize(masterChannelList) = Cardinality(DOMAIN self)

\* C4: when remove_channel(name) returns for a key name of the store,
\* getChannel(name) is None afterwards, name is in no list of the index,
\* and the value returned is the record that was stored under name.
C4_RemoveRoundTrip ==
    [][(call'.op = "remove_channel" /\ exc' = "" /\ call'.name \in DOMAIN self) =>
          /\ getChannel(this', call'.name) = None
          /\ call'.name \notin IndexMembers(masterChannelList')
          /\ ret' = PyDict(self[call'.name])]_vars

\* C6: remove_channel(name) with name not a key of the store raises, and
\* leaves the record mapping and every list of the index as they were.
C6_RemoveMissingRaises ==
    [][(call'.op = "remove_channel" /\ call'.name \notin DOMAIN self) =>
          /\ exc' # ""
          /\ self' = self
          /\ masterChannelList' = masterChannelList]_vars

(***************************************************************************)
(* SpecSet: add_channel with its defaults, remove_channel, the seven       *)
(* setters and add_metadata, in behaviours of at most MaxSet calls.        *)
(***************************************************************************)
MaxSet == 4

SetAdds ==
    AddArgs(ChannelNames, {1}, {PyStr("d1")}, Masters, {PyInt(1)}, {PyStr("")}, {PyStr("")},
            {None})

\* a conversion dict as add_channel stores it: linear, P1 = 1.0, P2 = 2.0
SomeConversion ==
    PyDict([type |-> PyInt(0),
            parameters |-> PyDict([P1 |-> PyFloat(FALSE, 1), P2 |-> PyFloat(FALSE, 2)])])

NextSet ==
    \/ \E a \in SetAdds : Counted(call_add_channel(a, MaxSet), MaxSet)
    \/ \E n \in KnownNames : Counted(call_remove_channel(n), MaxSet)
    \/ \E n \in KnownNames : Counted(call_setChannelUnit(n, PyStr("V")), MaxSet)
    \/ \E n \in KnownNames : Counted(call_setChannelData(n, PyStr("d2")), MaxSet)
    \/ \E n \in KnownNames : Counted(call_setChannelDesc(n, PyStr("x")), MaxSet)
    \/ \E n \in KnownNames, m \in Masters \cup {PyStr("B")} : Counted(call_setChannelMaster(n, m), MaxSet)
    \/ \E n \in KnownNames : Counted(call_setChannelMasterType(n, PyInt(2)), MaxSet)
    \/ \E n \in KnownNames : Counted(call_setChannelConversion(n, SomeConversion), MaxSet)
    \/ \E n \in KnownNames : Counted(call_setChannelAttachment(n, PyStr("att")), MaxSet)
    \/ \E author \in {PyStr(""), PyStr("me")} : Counted(call_add_metadata(author), MaxSet)
    \/ Counted(call_add_metadata_comment(PyStr("c")), MaxSet)

SpecSet == Init /\ [][NextSet]_vars

(***************************************************************************)
(* Claims settled under SpecSet.                                           *)
(***************************************************************************)
\* the number of times x occurs in the list l
Count(l, x) == Cardinality({i \in 1..Len(l) : l[i] = x})

SetterOps ==
    {"setChannelUnit", "setChannelData", "setChannelDesc", "setChannelMaster",
     "setChannelMasterType", "setChannelConversion", "setChannelAttachment"}

\* C3: for every key k of the store, the record's master field names an
\* entry of the index, and that entry's list contains k exactly once.
C3_MasterNamesIndexEntry ==
    \A k \in DOMAIN self :
        /\ masterField \in DOMAIN self[k]
        /\ self[k][masterField] \in DOMAIN masterChannelList
        /\ Count(masterChannelList[self[k][masterField]], k) = 1

\* C5: a setter called with a name that is no key of the store raises
\* KeyError('Channel not in dictionary'), creates no record, and leaves the
\* records, the index and the file metadata as they were.
C5_SetterOnMissingRaises ==
    [][(call'.op \in SetterOps /\ call'.name \notin DOMAIN self) =>
          /\ exc' = "KeyError: Channel not in dictionary"
          /\ self' = self
          /\ masterChannelList' = masterChannelList
          /\ file_metadata' = file_metadata]_vars

\* a setter has just raised on a missing name, in a store that holds a
\* record and whose metadata has been set
C5_Witness ==
    /\ call.op \in SetterOps
    /\ call.name \notin DOMAIN self
    /\ exc = "KeyError: Channel not in dictionary"
    /\ DOMAIN self # {}
    /\ file_metadata["author"] = PyStr("me")

\* add_metadata's parameters in their order, and the value the call c binds
\* to the i-th: the argument, or the default ''
MetadataParameters ==
    <<"author", "organisation", "project", "subject", "comment", "date", "time">>
Bound(c, i) == IF i <= Len(c.args) THEN c.args[i] ELSE PyStr("")

\* C12: after add_metadata the file metadata has exactly the seven keys and
\* each holds the value the call passed for it, '' for one it left out,
\* whatever the metadata held before; a second call with the same arguments
\* changes nothing; no record and no index list changes; the call returns.
C12_AddMetadataResets ==
    [][call'.op = "add_metadata" =>
          /\ exc' = ""
          /\ DOMAIN file_metadata' = MetadataKeys
          /\ \A i \in 1..7 : file_metadata'[MetadataParameters[i]] = Bound(call', i)
          /\ (call = call' => file_metadata' = file_metadata)
          /\ self' = self
          /\ masterChannelList' = masterChannelList]_vars

\* add_metadata(comment='c') has just been called, as the third call, on a
\* store that holds a record: the comment is 'c' and the author ''
C12_Witness ==
    /\ call.op = "add_metadata"
    /\ Len(call.args) = 5
    /\ file_metadata["comment"] = PyStr("c")
    /\ file_metadata["author"] = PyStr("")
    /\ DOMAIN self # {}
    /\ ncalls = 3

(***************************************************************************)
(* Spec: add_channel with master types and conversions under both          *)
(* versions, the removal of a field, and the getters, in behaviours of at  *)
(* most MaxCalls calls.                                                    *)
(***************************************************************************)
MaxCalls == 3

Versions == {DefaultVersion, MDF4}
MasterTypes == {PyInt(1), PyInt(2)}

\* the conversion of an info class of an mdf3 file: cc_type, and the
\* parameters under 'conversion' when the block has any
Conversion3(cc_type, parameters) ==
    PyDict([cc_type |-> PyInt(cc_type), conversion |-> PyDict(parameters)])
Linear(p1, p2) == Conversion3(0, [P1 |-> p1, P2 |-> p2])

ConversionSources ==
    {None,
     Linear(PyFloat(FALSE, 0), PyFloat(FALSE, 1)),      \* P1 = 0.0, P2 = 1.0
     Linear(PyFloat(TRUE, 0), PyFloat(FALSE, 1)),       \* P1 = -0.0, P2 = 1.0
     Linear(PyInt(0), PyInt(1)),                        \* P1 = 0, P2 = 1
     Linear(PyFloat(FALSE, 1), PyFloat(FALSE, 1)),      \* P1 = 1.0, P2 = 1.0
     Linear(PyFloat(FALSE, 0), PyFloat(FALSE, 2)),      \* P1 = 0.0, P2 = 2.0
     Linear(PyFloat(FALSE, 0), PyFloat(TRUE, 1)),       \* P1 = 0.0, P2 = -1.0
     Conversion3(1, [P1 |-> PyFloat(FALSE, 0), P2 |-> PyFloat(FALSE, 1)]),
     PyDict([cc_type |-> PyInt(0)]),                    \* no parameters
     Conversion3(0, [P2 |-> PyFloat(FALSE, 1)]),        \* no P1
     PyDict([cc_type |-> PyInt(1), cc_val |-> PyList(<<PyFloat(FALSE, 0), PyFloat(FALSE, 1)>>),
             cc_ref |-> PyStr("ref")])}                 \* an mdf4 info class

Adds ==
    AddArgs({"T"}, {0}, {PyStr("d1")}, {PyStr("A")}, MasterTypes, {PyStr("V")}, {PyStr("x")},
            ConversionSources)
    \cup AddArgs(ChannelNames, {0}, {PyStr("d1")}, Masters, {PyInt(1)}, {PyStr("")},
                 {PyStr("")}, {None})

\* an mdf4 info class of a linear conversion: cc_val is [offset, factor]
Linear4(offset, factor) == PyDict([cc_type |-> PyInt(0), cc_val |-> PyList(<<offset, factor>>)])

Adds4 ==
    AddArgs({"T"}, {0}, {PyStr("d1")}, {PyStr("A")}, {PyInt(1)}, {PyStr("V")}, {PyStr("x")},
            {Linear4(PyFloat(FALSE, 0), PyFloat(FALSE, 1))})

\* the conversion field of a record, as add_channel writes it, of a linear
\* conversion of offset 0.0 and factor 1.0
IdentityConversion ==
    PyDict([type |-> PyInt(0),
            parameters |-> PyDict([P1 |-> PyFloat(FALSE, 0), P2 |-> PyFloat(FALSE, 1)])])

Fields ==
    {descriptionField, unitField, dataField, masterField, masterTypeField, conversionField,
     attachmentField}

Next ==
    \/ \E v \in Versions : Counted(set_MDFVersionNumber(v), MaxCalls)
    \/ \E a \in Adds : Counted(call_add_channel(a, MaxCalls), MaxCalls)
    \/ \E n \in KnownNames : Counted(call_remove_channel_conversion(n), MaxCalls)
    \/ \E n \in KnownNames, f \in Fields : Counted(call__remove_channel_field(n, f), MaxCalls)
    \/ \E n \in KnownNames : Counted(call_getChannel(n), MaxCalls)
    \/ \E n \in KnownNames : Counted(call_getChannelUnit(n), MaxCalls)
    \/ \E n \in KnownNames : Counted(call_getChannelDesc(n), MaxCalls)
    \/ \E n \in KnownNames : Counted(call_getChannelMaster(n), MaxCalls)
    \/ \E n \in KnownNames : Counted(call_getChannelMasterType(n), MaxCalls)
    \/ \E n \in KnownNames : Counted(call_getChannelConversion(n), MaxCalls)
    \/ \E a \in Adds4 : Counted(call_add_channel(a, MaxCalls), MaxCalls)
    \/ \E n \in KnownNames :
           Counted(call_setChannelConversion(n, IdentityConversion), MaxCalls)

Spec == Init /\ [][Next]_vars

(***************************************************************************)
(* Claims settled under Spec.                                              *)
(***************************************************************************)
\* the field a call of a field removal is about
RemovedField(c) == IF c.op = "remove_channel_conversion" THEN conversionField ELSE c.args[1]

\* C7: remove_channel_conversion(name), and the generic removal of a field,
\* removes and returns the field when the record has it; it returns None
\* without raising and without changing the store when the record lacks the
\* field and when there is no record named name.
C7_RemoveFieldNeverRaises ==
    [][call'.op \in {"remove_channel_conversion", "_remove_channel_field"} =>
          /\ exc' = ""
          /\ masterChannelList' = masterChannelList
          /\ IF call'.name \in DOMAIN self /\ RemovedField(call') \in DOMAIN self[call'.name]
             THEN /\ ret' = self[call'.name][RemovedField(call')]
                  /\ self' = [self EXCEPT ![call'.name] = DictPop(@, RemovedField(call'))]
             ELSE /\ ret' = None
                  /\ self' = self]_vars

GetterField(op) ==
    CASE op = "getChannelUnit" -> unitField
      [] op = "getChannelDesc" -> descriptionField
      [] op = "getChannelMaster" -> masterField
      [] op = "getChannelMasterType" -> masterTypeField
      [] op = "getChannelConversion" -> conversionField

FieldGetterOps ==
    {"getChannelUnit", "getChannelDesc", "getChannelMaster", "getChannelMasterType",
     "getChannelConversion"}

\* C8: a getter never raises and never changes the store.  A field getter
\* returns the stored value when the record has the field, '' when the
\* record exists without the field, and None when there is no record of
\* that name; getChannel returns the record, or None.
C8_GettersNeverFail ==
    [][call'.op \in FieldGetterOps \cup {"getChannel"} =>
          /\ exc' = ""
          /\ self' = self
          /\ masterChannelList' = masterChannelList
          /\ file_metadata' = file_metadata
          /\ MDFVersionNumber' = MDFVersionNumber
          /\ ret' = IF call'.name \notin DOMAIN self THEN None
                    ELSE IF call'.op = "getChannel" THEN PyDict(self[call'.name])
                    ELSE IF GetterField(call'.op) \in DOMAIN self[call'.name]
                         THEN self[call'.name][GetterField(call'.op)]
                         ELSE PyStr("")]_vars

\* getChannelUnit has just answered '' for a record whose unit was removed,
\* while the name "T_1" would be answered None
C8_Witness ==
    /\ call.op = "getChannelUnit"
    /\ call.name \in DOMAIN self
    /\ unitField \notin DOMAIN self[call.name]
    /\ ret = PyStr("")
    /\ getChannelUnit(this, "T_1") = None

\* C9: the masterType add_channel stores on the new record is 1 when the
\* version at the call is below 400, whatever master_type was passed, and
\* the master_type passed when the version is 400 or above.
C9_MasterTypeByVersion ==
    [][call'.op = "add_channel" =>
          self'[RuleKey(call'.args)][masterTypeField] =
              IF MDFVersionNumber < 400 THEN PyInt(1) ELSE call'.args.master_type]_vars

\* "T" was added with master_type=2 under version 300 and again, as "T_0",
\* under version 400
C9_Witness ==
    /\ call.op = "add_channel"
    /\ call.args.master_type = PyInt(2)
    /\ MDFVersionNumber = 400
    /\ DOMAIN self = {"T", "T_0"}
    /\ self["T"][unitField] = PyStr("V")
    /\ self["T"][masterTypeField] = PyInt(1)
    /\ self["T_0"][masterTypeField] = PyInt(2)

\* a conversion source of type 0 with P2 = 1.0 and P1 = 0.0 or -0.0
IsIdentitySource(c) ==
    /\ c # None
    /\ c.d["cc_type"] = PyInt(0)
    /\ "conversion" \in DOMAIN c.d
    /\ DOMAIN c.d["conversion"].d = {"P1", "P2"}
    /\ c.d["conversion"].d["P2"] = PyFloat(FALSE, 1)
    /\ c.d["conversion"].d["P1"] \in {PyFloat(FALSE, 0), PyFloat(TRUE, 0)}

\* C10: on a store of version below 400, add_channel with a conversion
\* source of type 0 with P2 = 1.0 and P1 = 0.0 or -0.0 returns, the new
\* record has no conversion field and getChannelConversion answers '', and
\* the record's other fields and the index are those of a call without
\* conversion.
C10_IdentityConversionDropped ==
    [][(call'.op = "add_channel" /\ MDFVersionNumber < 400
        /\ IsIdentitySource(call'.args.conversion)) =>
          LET a == call'.args
              key == RuleKey(a)
          IN  /\ exc' = ""
              /\ getChannelConversion(this', key) = PyStr("")
              /\ self' = DictSet(self, key,
                                 [data |-> a.data, unit |-> a.unit,
                                  description |-> a.description,
                                  master |-> a.master_channel, masterType |-> PyInt(1)])
              /\ masterChannelList' =
                     IF a.master_channel \in DOMAIN masterChannelList
                     THEN [masterChannelList EXCEPT ![a.master_channel] = Append(@, key)]
                     ELSE DictSet(masterChannelList, a.master_channel, <<key>>)]_vars

\* add_channel has just been called with P1 = -0.0, P2 = 1.0 on a store of
\* version 300, whose only record has no conversion
C10_Witness ==
    /\ call.op = "add_channel"
    /\ call.args.conversion = Linear(PyFloat(TRUE, 0), PyFloat(FALSE, 1))
    /\ MDFVersionNumber = 300
    /\ exc = ""
    /\ DOMAIN self = {"T"}
    /\ conversionField \notin DOMAIN self["T"]

\* a conversion field of type 0 whose parameters are the identity map: P1
\* equal to 0 and P2 equal to 1, or cc_val equal to [0, 1]
IsIdentityStored(c) ==
    /\ c.t = "dict"
    /\ DOMAIN c.d = {"type", "parameters"}
    /\ PyEq(c.d["type"], PyInt(0))
    /\ LET p == c.d["parameters"].d
       IN  \/ /\ {"P1", "P2"} \subseteq DOMAIN p
              /\ PyEq(p["P1"], PyInt(0))
              /\ PyEq(p["P2"], PyInt(1))
           \/ /\ "cc_val" \in DOMAIN p
              /\ Len(p["cc_val"].l) = 2
              /\ PyEq(p["cc_val"].l[1], PyInt(0))
              /\ PyEq(p["cc_val"].l[2], PyInt(1))

HoldsIdentity(records, k) ==
    /\ conversionField \in DOMAIN records[k]
    /\ IsIdentityStored(records[k][conversionField])

\* C11 as stated: in every reachable state, under either version and by
\* whatever call it came there (add_channel under a version below 400,
\* add_channel under version 400 or above, setChannelConversion), no record
\* holds a conversion of type 0 whose parameters are the identity map.
C11_NoIdentityConversionStored ==
    \A k \in DOMAIN self : ~HoldsIdentity(self, k)

\* C11, amended: add_channel under a version below 400 never leaves a
\* conversion of type 0 with P1 equal to 0 and P2 equal to 1 on the record
\* it registers, whether the call returns or raises.  (add_channel under
\* version 400 or above and setChannelConversion store what they are given.)
C11_LegacyAddNeverStoresIdentity ==
    [][(call'.op = "add_channel" /\ MDFVersionNumber < 400) =>
          ~HoldsIdentity(self', RuleKey(call'.args))]_vars

\* add_channel has just been called with P1 = 0, P2 = 1 (two ints) on a
\* store of version 300 that already held "T" with a conversion of P2 = 2.0;
\* the new record "T_0" has no conversion
C11_Witness ==
    /\ call.op = "add_channel"
    /\ call.args.conversion = Linear(PyInt(0), PyInt(1))
    /\ MDFVersionNumber = 300
    /\ exc = ""
    /\ DOMAIN self = {"T", "T_0"}
    /\ conversionField \in DOMAIN self["T"]
    /\ conversionField \notin DOMAIN self["T_0"]

(***************************************************************************)
(* Further claims settled under SpecIndex.                                 *)
(***************************************************************************)
\* the list l without its i-th name
WithoutNth(l, i) == SubSeq(l, 1, i - 1) \o SubSeq(l, i + 1, Len(l))

\* C15: the names of an index list stand in the order of their addition:
\* add_channel appends the new key at the end of its master's list and
\* leaves the other lists alone; remove_channel deletes one occurrence of
\* the removed name from its master's list, the other names keeping their
\* order, and leaves the other lists alone.
C15_IndexKeepsAdditionOrder ==
    [][/\ call'.op = "add_channel" =>
              LET m == call'.args.master_channel
                  key == RuleKey(call'.args)
              IN  masterChannelList' =
                      IF m \in DOMAIN masterChannelList
                      THEN [masterChannelList EXCEPT ![m] = Append(@, key)]
                      ELSE DictSet(masterChannelList, m, <<key>>)
       /\ call'.op = "remove_channel" =>
              LET m == getChannelMaster(this, call'.name)
              IN  \/ exc' # "" /\ masterChannelList' = masterChannelList
                  \/ /\ m \in DOMAIN masterChannelList
                     /\ \E i \in 1..Len(masterChannelList[m]) :
                            /\ masterChannelList[m][i] = call'.name
                            /\ masterChannelList' =
                                   [masterChannelList EXCEPT ![m] = WithoutNth(@, i)]]_vars

\* "T" has just been removed from the head of a list of three names: the
\* two names added after it remain, in the order of their addition
C15_Witness ==
    /\ call.op = "remove_channel"
    /\ call.name = "T"
    /\ exc = ""
    /\ DOMAIN masterChannelList = {None}
    /\ masterChannelList[None] = <<"T_1", "T_0">>
    /\ DOMAIN self = {"T_1", "T_0"}

(***************************************************************************)
(* Further claims settled under Spec.                                      *)
(***************************************************************************)
\* C19: add_channel is all-or-nothing: a call that raises (under a version
\* below 400, a conversion of type 0 without parameters, or with P2 = 1.0
\* and no P1) leaves the dict and the index as they were before the call:
\* no new key, no new index member, no partly written conversion.
C19_AddIsAllOrNothing ==
    [][(call'.op = "add_channel" /\ exc' # "") =>
          /\ self' = self
          /\ masterChannelList' = masterChannelList]_vars

(***************************************************************************)
(* Further claims settled under SpecSet.                                   *)
(***************************************************************************)
SetterField(op) ==
    CASE op = "setChannelUnit" -> unitField
      [] op = "setChannelData" -> dataField
      [] op = "setChannelDesc" -> descriptionField
      [] op = "setChannelMaster" -> masterField
      [] op = "setChannelMasterType" -> masterTypeField
      [] op = "setChannelConversion" -> conversionField
      [] op = "setChannelAttachment" -> attachmentField

\* C20: a setter that returns has set its one field of the one record it
\* names to the value passed: the record's other fields, the other
\* records, the key set, every index list (after setChannelMaster too) and
\* the file metadata are as they were.
C20_SetterChangesOneField ==
    [][(call'.op \in SetterOps /\ exc' = "") =>
          /\ call'.name \in DOMAIN self
          /\ self' = [self EXCEPT ![call'.name] =
                         DictSet(@, SetterField(call'.op), call'.args[1])]
          /\ masterChannelList' = masterChannelList
          /\ file_metadata' = file_metadata
          /\ MDFVersionNumber' = MDFVersionNumber
          /\ ret' = None]_vars

\* setChannelMaster(name, 'B') has just returned: the record's master is
\* 'B', its data is still there, and its name is still listed under None
C20_Witness ==
    /\ call.op = "setChannelMaster"
    /\ exc = ""
    /\ self[call.name][masterField] = PyStr("B")
    /\ self[call.name][dataField] = PyStr("d1")
    /\ DOMAIN masterChannelList = {None}
    /\ InList(masterChannelList[None], call.name)
    /\ file_metadata["author"] = PyStr("me")

(***************************************************************************)
(* SpecUndo: the calls of SpecIndex, each remembering the dict and the     *)
(* index it started from.                                                  *)
(***************************************************************************)
Recorded(A) ==
    /\ A
    /\ before' = [self |-> self, masterChannelList |-> masterChannelList]
    /\ UNCHANGED <<ncalls, config, copied, copyKeys, sinceCopy, stepping>>

NextUndo ==
    \/ \E a \in IndexAdds : Recorded(call_add_channel(a, MaxIndex))
    \/ \E n \in KnownNames : Recorded(call_remove_channel(n))

SpecUndo == Init /\ [][NextUndo]_vars

\* the key the last call, an add_channel, stored its channel dict under
AddedKey ==
    IF call.args.channel_name \in DOMAIN before.self
    THEN call.args.channel_name \o "_" \o str(call.args.dataGroup)
    ELSE call.args.channel_name

\* C18: add_channel followed by remove_channel of the key it created is an
\* inverse: the removal returns, the dict is the dict before the add, and
\* every index list is the list before the add, but for the master entry
\* the add created, which stays with an empty list.
C18_AddThenRemoveRestores ==
    [][(/\ call.op = "add_channel"
        /\ exc = ""
        /\ AddedKey \notin DOMAIN before.self
        /\ call'.op = "remove_channel"
        /\ call'.name = AddedKey) =>
          LET m == call.args.master_channel
          IN  /\ exc' = ""
              /\ self' = before.self
              /\ masterChannelList' =
                     IF m \in DOMAIN before.masterChannelList
                     THEN before.masterChannelList
                     ELSE DictSet(before.masterChannelList, m, <<>>)]_vars

(***************************************************************************)
(* SpecCopy: an object and the copy copy() makes of it.  Attributes are    *)
(* assigned, channels added, removed and set, on either object, in         *)
(* behaviours of at most MaxCopy calls.                                    *)
(***************************************************************************)
MaxCopy == 5

\* the object the variables hold, with its scalar attributes
whole ==
    [self |-> self,
     masterChannelList |-> masterChannelList,
     file_metadata |-> file_metadata,
     MDFVersionNumber |-> MDFVersionNumber,
     fileName |-> fileName,
     multiProc |-> multiProc,
     filterChannelNames |-> filterChannelNames,
     convert_tables |-> convert_tables,
     _pandasframe |-> _pandasframe]

\* the copy as the methods see it: its own dict and version, and the index
\* and the metadata it has in common with self
that ==
    [self |-> yop.self,
     masterChannelList |-> masterChannelList,
     file_metadata |-> file_metadata,
     MDFVersionNumber |-> yop.MDFVersionNumber]

\* yop = self.copy()
call_copy ==
    /\ yop' = copy(whole)
    /\ shared' = copy_shared(whole)
    /\ callee' = "self"
    /\ call' = Call("copy", "", <<>>)
    /\ ret' = PyStr("yop")
    /\ exc' = ""
    /\ copyKeys' = DOMAIN self
    /\ sinceCopy' = {}
    /\ UNCHANGED <<self, masterChannelList, file_metadata, MDFVersionNumber, config, before,
                   stepping>>

\* an attribute of self has been assigned
Assigned(attribute, v) ==
    /\ call' = Call(attribute, "", <<v>>)
    /\ ret' = None
    /\ exc' = ""
    /\ callee' = "self"
    /\ UNCHANGED <<self, masterChannelList, file_metadata, MDFVersionNumber, yop, shared,
                   history, stepping>>

set_fileName(v) ==
    /\ fileName' = v
    /\ Assigned("fileName", v)
    /\ UNCHANGED <<multiProc, filterChannelNames, convert_tables, _pandasframe>>

set_multiProc(v) ==
    /\ multiProc' = v
    /\ Assigned("multiProc", v)
    /\ UNCHANGED <<fileName, filterChannelNames, convert_tables, _pandasframe>>

set_filterChannelNames(v) ==
    /\ filterChannelNames' = v
    /\ Assigned("filterChannelNames", v)
    /\ UNCHANGED <<fileName, multiProc, convert_tables, _pandasframe>>

set_convert_tables(v) ==
    /\ convert_tables' = v
    /\ Assigned("convert_tables", v)
    /\ UNCHANGED <<fileName, multiProc, filterChannelNames, _pandasframe>>

set__pandasframe(v) ==
    /\ _pandasframe' = v
    /\ Assigned("_pandasframe", v)
    /\ UNCHANGED <<fileName, multiProc, filterChannelNames, convert_tables>>

\* the dict of the copy y once the channel dicts of records, held under the
\* keys of sh by both objects, have been written to
Mirror(y, records, sh) ==
    IF y = NoCopy THEN y
    ELSE [y EXCEPT !.self = [k \in DOMAIN @ |-> IF k \in sh THEN records[k] ELSE @[k]]]

\* a call on self, run to its end, of an object that may have a copy: the
\* keys of bound have been given a new channel dict, or popped, and are
\* no longer common to the two dicts; the channel dicts that still are
\* show in the copy what the call wrote to them
OnSelf(A, bound) ==
    /\ A
    /\ callee' = "self"
    /\ shared' = shared \ bound
    /\ yop' = Mirror(yop, self', shared')
    /\ sinceCopy' = sinceCopy \cup bound
    /\ UNCHANGED <<config, before, copyKeys, stepping>>

\* the call c on the copy ends as out says
OnCopy(c, out, bound) ==
    /\ yop # NoCopy
    /\ yop' = [yop EXCEPT !.self = out.obj.self,
                          !.MDFVersionNumber = out.obj.MDFVersionNumber]
    /\ masterChannelList' = out.obj.masterChannelList
    /\ file_metadata' = out.obj.file_metadata
    /\ shared' = shared \ bound
    /\ self' = [k \in DOMAIN self |-> IF k \in shared' THEN out.obj.self[k] ELSE self[k]]
    /\ call' = c
    /\ ret' = out.ret
    /\ exc' = out.exc
    /\ callee' = "yop"
    /\ sinceCopy' = sinceCopy \cup bound
    /\ UNCHANGED <<MDFVersionNumber, config, before, copyKeys, stepping>>

\* line 133 of add_channel binds a new channel dict to the key
BoundByAdd(o, a) == {add_channel_name(o, a.dataGroup, a.channel_name)}
\* line 176 of remove_channel pops the key, when lines 175-176 do not raise
PoppedByRemove(o, channel_name) ==
    IF remove_channel(o, channel_name).exc = "" THEN {channel_name} ELSE {}

yop_add_channel(a, max) ==
    /\ IndexSize(masterChannelList) < max
    /\ OnCopy(Call("add_channel", a.channel_name, a),
              add_channel(that, a.dataGroup, a.channel_name, a.data, a.master_channel,
                          a.master_type, a.unit, a.description, a.conversion),
              BoundByAdd(that, a))

yop_remove_channel(channel_name) ==
    OnCopy(Call("remove_channel", channel_name, <<>>), remove_channel(that, channel_name),
           PoppedByRemove(that, channel_name))

yop_setChannelUnit(channelName, unit) ==
    OnCopy(Call("setChannelUnit", channelName, <<unit>>),
           setChannelUnit(that, channelName, unit), {})

\* a call in a specification that bounds the number of calls by max
Within(A, max) == ncalls < max /\ A /\ ncalls' = ncalls + 1

CopyAdds ==
    AddArgs({"T"}, {0}, {PyStr("d1")}, Masters, {PyInt(1)}, {PyStr("")}, {PyStr("")}, {None})

\* the names a call on either object may be about
CopyNames == {"T"} \cup DOMAIN self \cup (IF yop = NoCopy THEN {} ELSE DOMAIN yop.self)

NextCopy ==
    \/ \E v \in {None, PyStr("f.dat")} : Within(set_fileName(v), MaxCopy)
    \/ \E v \in BOOLEAN : Within(set_multiProc(v), MaxCopy)
    \/ \E v \in BOOLEAN : Within(set_filterChannelNames(v), MaxCopy)
    \/ \E v \in BOOLEAN : Within(set_convert_tables(v), MaxCopy)
    \/ \E v \in BOOLEAN : Within(set__pandasframe(v), MaxCopy)
    \/ \E v \in Versions : Within(OnSelf(set_MDFVersionNumber(v), {}), MaxCopy)
    \/ Within(call_copy, MaxCopy)
    \/ \E a \in CopyAdds : Within(OnSelf(call_add_channel(a, MaxCopy), BoundByAdd(this, a)), MaxCopy)
    \/ \E n \in CopyNames :
           Within(OnSelf(call_remove_channel(n), PoppedByRemove(this, n)), MaxCopy)
    \/ \E n \in CopyNames : Within(OnSelf(call_setChannelUnit(n, PyStr("V")), {}), MaxCopy)
    \/ \E a \in CopyAdds : Within(yop_add_channel(a, MaxCopy), MaxCopy)
    \/ \E n \in CopyNames : Within(yop_remove_channel(n), MaxCopy)
    \/ \E n \in CopyNames : Within(yop_setChannelUnit(n, PyStr("W")), MaxCopy)

SpecCopy == Init /\ [][NextCopy]_vars

(***************************************************************************)
(* Claims settled under SpecCopy.                                          *)
(***************************************************************************)
\* C13: the object copy() has just returned has every scalar attribute of
\* the object copied: the file name, the version number, the flag of the
\* record or tabular form (_pandasframe), and the flags multiProc,
\* filterChannelNames and convert_tables.
C13_CopyKeepsConfiguration ==
    call.op = "copy" =>
        /\ yop.fileName = fileName
        /\ yop.MDFVersionNumber = MDFVersionNumber
        /\ yop._pandasframe = _pandasframe
        /\ yop.multiProc = multiProc
        /\ yop.filterChannelNames = filterChannelNames
        /\ yop.convert_tables = convert_tables

\* the object the last call was not made on, as the methods see it
other == IF callee = "self" THEN that ELSE this

\* add_channel or remove_channel on one object leaves the keys of the
\* other as they were
KeySetsApart ==
    (call'.op \in {"add_channel", "remove_channel"} /\ yop # NoCopy) =>
        IF callee' = "self" THEN DOMAIN yop'.self = DOMAIN yop.self
        ELSE DOMAIN self' = DOMAIN self

\* C14 as stated: after yop = self.copy() a unit set through a setter on
\* either object, for a key that was there at the copy (and is a key of
\* both objects now), is read back through the other object; and
\* add_channel or remove_channel on one object leaves the keys of the other
\* as they were.
C14_CopySharesRecords ==
    [][/\ (/\ call'.op = "setChannelUnit"
           /\ exc' = ""
           /\ yop # NoCopy
           /\ call'.name \in copyKeys \cap DOMAIN self \cap DOMAIN yop.self) =>
              getChannelUnit(other', call'.name) = call'.args[1]
       /\ KeySetsApart]_vars

\* C14, amended: the unit is read back through the other object for a key
\* that was there at the copy and that no add_channel has bound and no
\* remove_channel has popped since, on either object; and add_channel or
\* remove_channel on one object leaves the keys of the other as they were.
C14_CopySharesUnboundRecords ==
    [][/\ (/\ call'.op = "setChannelUnit"
           /\ exc' = ""
           /\ yop # NoCopy
           /\ call'.name \in copyKeys \ sinceCopy) =>
              getChannelUnit(other', call'.name) = call'.args[1]
       /\ KeySetsApart]_vars

\* setChannelUnit('T', 'W') has just returned on the copy, which was made
\* of an object holding "T" and has since added "T_0": self reads 'W' for
\* "T" and has no "T_0"
C14_Witness ==
    /\ call.op = "setChannelUnit"
    /\ callee = "yop"
    /\ exc = ""
    /\ call.name = "T"
    /\ "T" \in copyKeys \ sinceCopy
    /\ getChannelUnit(this, "T") = PyStr("W")
    /\ DOMAIN self = {"T"}
    /\ DOMAIN yop.self = {"T", "T_0"}

\* C17: once a copy is made, whatever add_channel and remove_channel calls
\* follow on either object, the names of the index are the keys of self and
\* the keys of the copy, each listed once.
C17_IndexIsKeySetAfterCopy ==
    yop # NoCopy =>
        /\ IndexMembers(masterChannelList) = DOMAIN self
        /\ IndexMembers(masterChannelList) = DOMAIN yop.self
        /\ IndexSize(masterChannelList) = Cardinality(IndexMembers(masterChannelList))

(***************************************************************************)
(* SpecSteps: add_channel and remove_channel run line by line by one       *)
(* accessor, while a second accessor reads the keys and the index between  *)
(* any two lines.  The class has no lock: nothing keeps the reader out of  *)
(* a call in progress.                                                     *)
(***************************************************************************)
MaxSteps == 2

\* the call in progress has run one more line, which left the object as o
Line(at, o, next) ==
    /\ pc = at
    /\ self' = o.self
    /\ masterChannelList' = o.masterChannelList
    /\ file_metadata' = o.file_metadata
    /\ MDFVersionNumber' = o.MDFVersionNumber
    /\ pc' = next
    /\ UNCHANGED <<call, ret, exc, ncalls, frame, observed, config, copied, history>>

\* the call in progress ends as out says
LastLine(at, out) ==
    /\ pc = at
    /\ self' = out.obj.self
    /\ masterChannelList' = out.obj.masterChannelList
    /\ file_metadata' = out.obj.file_metadata
    /\ MDFVersionNumber' = out.obj.MDFVersionNumber
    /\ ret' = out.ret
    /\ exc' = out.exc
    /\ pc' = "idle"
    /\ frame' = <<>>
    /\ UNCHANGED <<call, ncalls, observed, config, copied, history>>

\* lines 131-133: the call starts, and stores an empty channel dict
add_channel_133(a, max) ==
    /\ pc = "idle"
    /\ IndexSize(masterChannelList) < max
    /\ LET name == add_channel_name(this, a.dataGroup, a.channel_name)
       IN  /\ self' = add_channel_new(this, name).self
           /\ frame' = [a |-> a, channel_name |-> name]
    /\ call' = Call("add_channel", a.channel_name, a)
    /\ ret' = None
    /\ exc' = ""
    /\ pc' = "134"
    /\ UNCHANGED <<masterChannelList, file_metadata, MDFVersionNumber, ncalls, observed,
                   config, copied, history>>

add_channel_134 ==
    Line("134", setChannelData(this, frame.channel_name, frame.a.data).obj, "135")
add_channel_135 ==
    Line("135", setChannelUnit(this, frame.channel_name, frame.a.unit).obj, "136")
add_channel_136 ==
    Line("136", setChannelDesc(this, frame.channel_name, frame.a.description).obj, "137")
add_channel_137 ==
    Line("137", setChannelMaster(this, frame.channel_name, frame.a.master_channel).obj, "138")
\* lines 138-140
add_channel_138 ==
    Line("138", add_channel_index(this, frame.channel_name, frame.a.master_channel), "141")
\* lines 141-144
add_channel_141 ==
    Line("141", add_channel_masterType(this, frame.channel_name, frame.a.master_type), "145")
\* lines 145-160
add_channel_145 ==
    LastLine("145", add_channel_conversion(this, frame.channel_name, frame.a.conversion))

\* line 175: the call starts; it ends there when the line raises
remove_channel_at_175(channel_name) ==
    /\ pc = "idle"
    /\ LET out == remove_channel_175(this, channel_name)
       IN  /\ masterChannelList' = out.obj.masterChannelList
           /\ exc' = out.exc
           /\ pc' = IF out.exc = "" THEN "176" ELSE "idle"
           /\ frame' = IF out.exc = "" THEN [channel_name |-> channel_name] ELSE <<>>
    /\ call' = Call("remove_channel", channel_name, <<>>)
    /\ ret' = None
    /\ UNCHANGED <<self, file_metadata, MDFVersionNumber, ncalls, observed, config, copied,
                   history>>

remove_channel_at_176 == LastLine("176", remove_channel_176(this, frame.channel_name))

\* the second accessor reads the keys and the index, wherever the call in
\* progress is
observe ==
    /\ observed' = [keys |-> DOMAIN self, members |-> IndexMembers(masterChannelList),
                    at |-> pc]
    /\ UNCHANGED <<self, masterChannelList, file_metadata, MDFVersionNumber, call, ret, exc,
                   ncalls, pc, frame, config, copied, history>>

StepAdds ==
    AddArgs({"T"}, {0}, {PyStr("d1")}, Masters, {PyInt(1)}, {PyStr("")}, {PyStr("")},
            {None})

NextSteps ==
    \/ \E a \in StepAdds : add_channel_133(a, MaxSteps)
    \/ add_channel_134
    \/ add_channel_135
    \/ add_channel_136
    \/ add_channel_137
    \/ add_channel_138
    \/ add_channel_141
    \/ add_channel_145
    \/ \E n \in KnownNames : remove_channel_at_175(n)
    \/ remove_channel_at_176
    \/ observe

SpecSteps == Init /\ [][NextSteps]_vars

\* C16: add_channel and remove_channel change the dict and the index as
\* one: a second accessor that reads while a call is in progress never
\* finds a key that no index list names, nor a name of an index list that
\* is no key.
C16_UpdatesAreAtomic ==
    observed.at # "idle" => observed.keys = observed.members

====
